---- MODULE Spec2Model ----
(***************************************************************************)
(* A model of the gossiping broadcast node of src/src/main.rs: the main    *)
(* thread's dispatch loop (EchoNode::step under the stdout lock), the      *)
(* detached gossip thread, the three mutex-guarded fields of               *)
(* BroadcastStore and the process-wide stdout lock.                        *)
(*                                                                         *)
(* Every variable is a function of the process (node) it belongs to, so    *)
(* that the same actions describe one node fed by an arbitrary peer (Spec) *)
(* and a cluster of nodes wired stdout-to-stdin (ClusterSpec).             *)
(*                                                                         *)
(* A Rust String is a sequence of character codes, Option<usize> is the    *)
(* empty or the one-element sequence, a HashSet is a set, a HashMap is a   *)
(* function.                                                               *)
(***************************************************************************)
EXTENDS Integers, Sequences, FiniteSets, TLC

\* ------------------------------------------------------------ bounds
\* Inbound envelopes the environment feeds one node.
MaxIn == 2
\* Gossip rounds one gossip thread starts.
MaxRounds == 1

\* --------------------------------------------------------- constants
\* EchoNode { id: 1 }
FirstId == 1
\* let mut moreids: usize = 1000
FirstMoreIds == 1000

\* ------------------------------------------------------------ strings
N1 == <<110, 49>>
N2 == <<110, 50>>
N3 == <<110, 51>>
Client == <<99, 49>>
EmptyString == << >>

\* The processes that run the program.
Procs == {N1, N2}

\* The values clients broadcast (the program only stores and copies them).
Values == {1, 2}

\* Option<usize>
None == << >>
Some(x) == <<x>>

\* The threads of one process, as lock owners.
Free == "free"
Main == "main"
Gossip == "gossip"

\* ----------------------------------------------------------- messages
\* struct Message / struct MessageBody
Message(msrc, mdest, msg_id, in_reply_to, payload) ==
    [src |-> msrc, dest |-> mdest,
     body |-> [msg_id |-> msg_id, in_reply_to |-> in_reply_to, payload |-> payload]]

\* enum Payload, tagged by "type" in snake_case
PInit(node_id, node_ids) == [type |-> "init", node_id |-> node_id, node_ids |-> node_ids]
PInitOk == [type |-> "init_ok"]
PError(code, text) == [type |-> "error", code |-> code, text |-> text]
PEcho(echo) == [type |-> "echo", echo |-> echo]
PEchoOk(echo) == [type |-> "echo_ok", echo |-> echo]
PGenerate == [type |-> "generate"]
PGenerateOk(unq_id) == [type |-> "generate_ok", id |-> unq_id]
PBroadcast(message) == [type |-> "broadcast", message |-> message]
PBroadcastOk == [type |-> "broadcast_ok"]
PRead == [type |-> "read"]
PReadOk(msgseq) == [type |-> "read_ok", messages |-> msgseq]
PTopology(topo) == [type |-> "topology", topology |-> topo]
PTopologyOk == [type |-> "topology_ok"]
PGossipBroadcast(message) == [type |-> "gossip_broadcast", message |-> message]

\* ------------------------------------------------------------ helpers
Range(s) == {s[i] : i \in DOMAIN s}

\* String's Ord: lexicographic on the character codes.
RECURSIVE StrLess(_, _)
StrLess(a, b) ==
    IF b = << >> THEN FALSE
    ELSE IF a = << >> THEN TRUE
    ELSE IF Head(a) # Head(b) THEN Head(a) < Head(b)
    ELSE StrLess(Tail(a), Tail(b))

\* HashMap::new()
EmptyMap == [k \in {} |-> << >>]

\* A mutant of MapExtend: the map is replaced by the new entries.
MapExtendReset(old, new) == new

\* HashMap::extend: every entry of new is inserted, replacing an entry of the same key.
MapExtend(old, new) ==
    [k \in DOMAIN old \cup DOMAIN new |-> IF k \in DOMAIN new THEN new[k] ELSE old[k]]

\* A mutant of SetInsert: the set is replaced by the value.
SetInsertOnly(set, v) == {v}

\* HashSet::insert
SetInsert(set, v) == set \cup {v}

\* A mutant of SetExtend: the gossiped values are dropped.
SetExtendLost(set, more) == set

\* HashSet::extend
SetExtend(set, more) == set \cup more

\* String::extend(chars): the characters are appended.
StringExtend(s, chars) == s \o chars

\* A mutant of Collections: nothing is collected.
CollectionsNone(set) == {<< >>}

\* HashSet::into_iter().collect::<Vec<_>>(): the elements once each, in an
\* order the hasher decides.
Collections(set) ==
    {s \in [1..Cardinality(set) -> set] : Range(s) = set}

\* HashMap::values().flatten(): the adjacency lists of every key, end to end,
\* in an order of the keys the hasher decides (it is sorted right after).
RECURSIVE ValuesFlatten(_)
ValuesFlatten(map) ==
    IF DOMAIN map = {} THEN << >>
    ELSE LET k == CHOOSE x \in DOMAIN map : TRUE
         IN  map[k] \o ValuesFlatten([x \in DOMAIN map \ {k} |-> map[x]])

\* Vec::sort, as an insertion sort.
RECURSIVE SortInsert(_, _)
SortInsert(x, s) ==
    IF s = << >> THEN <<x>>
    ELSE IF StrLess(Head(s), x) THEN <<Head(s)>> \o SortInsert(x, Tail(s))
    ELSE <<x>> \o s

RECURSIVE Sort(_)
Sort(s) == IF s = << >> THEN << >> ELSE SortInsert(Head(s), Sort(Tail(s)))

\* Vec::dedup: consecutive equal elements collapse to one.
RECURSIVE Dedup(_)
Dedup(s) ==
    IF Len(s) <= 1 THEN s
    ELSE IF s[1] = s[2] THEN Dedup(Tail(s))
    ELSE <<s[1]>> \o Dedup(Tail(s))

\* neighbors.retain(|&neighbor| neighbor != &src)
Retain(s, own) == SelectSeq(s, LAMBDA x : x # own)

\* The neighbors one gossip round sends to.
RoundNeighbors(map, own) == Retain(Dedup(Sort(ValuesFlatten(map))), own)

\* ---------------------------------------------------------- the state
VARIABLES
    messages, whoami, topology,
    messagesLock, whoamiLock, topologyLock, stdoutLock,
    id, dpc, input, reply,
    moreids, gpc, src, msgs, neighbors,
    inbox, out, arrived, rounds, delivered, handled

store == <<messages, whoami, topology>>
locks == <<messagesLock, whoamiLock, topologyLock, stdoutLock>>
mainv == <<id, dpc, input, reply>>
gossv == <<moreids, gpc, src, msgs, neighbors>>
envv == <<inbox, arrived, rounds, delivered>>
vars == <<store, locks, mainv, gossv, envv, out, handled>>

\* No message: the value of input and reply between two envelopes.
NoMessage == [none |-> TRUE]

\* What is written to stdout: the JSON of an envelope, then a newline.
JsonChunk(m) == [chunk |-> "json", msg |-> m]
NewlineChunk == [chunk |-> "nl"]

\* The state after main's setup: the stores are empty (Default), the counters
\* are at their first values, the main thread waits for input and the gossip
\* thread is about to start its first round; fed is what already waits on stdin.
Start(fed) ==
    /\ messages = [n \in Procs |-> {}]
    /\ whoami = [n \in Procs |-> EmptyString]
    /\ topology = [n \in Procs |-> EmptyMap]
    /\ messagesLock = [n \in Procs |-> Free]
    /\ whoamiLock = [n \in Procs |-> Free]
    /\ topologyLock = [n \in Procs |-> Free]
    /\ stdoutLock = [n \in Procs |-> Free]
    /\ id = [n \in Procs |-> FirstId]
    /\ dpc = [n \in Procs |-> "recv"]
    /\ input = [n \in Procs |-> NoMessage]
    /\ reply = [n \in Procs |-> NoMessage]
    /\ moreids = [n \in Procs |-> FirstMoreIds]
    /\ gpc = [n \in Procs |-> "sleep"]
    /\ src = [n \in Procs |-> EmptyString]
    /\ msgs = [n \in Procs |-> {}]
    /\ neighbors = [n \in Procs |-> << >>]
    /\ inbox = fed
    /\ out = [n \in Procs |-> << >>]
    /\ arrived = [n \in Procs |-> 0]
    /\ rounds = [n \in Procs |-> 0]
    /\ delivered = [n \in Procs |-> 0]
    /\ handled = [n \in Procs |-> << >>]

Init == Start([n \in Procs |-> << >>])

\* ------------------------------------------------------ the main thread
Acquire(lock, n, who) == [lock EXCEPT ![n] = who]

\* A guard (MutexGuard, StdoutLock) of thread who goes out of scope.
Release(lock, n, who) == [lock EXCEPT ![n] = IF @ = who THEN Free ELSE @]

\* A mutant of Reply: src and dest are not swapped.
ReplyUnswapped(inp, msg_id, payload) ==
    Message(inp.src, inp.dest, Some(msg_id), inp.body.msg_id, payload)

\* The reply every arm of step builds: src and dest swapped, the node's next
\* id, and the request's msg_id as in_reply_to.
Reply(inp, msg_id, payload) ==
    Message(inp.dest, inp.src, Some(msg_id), inp.body.msg_id, payload)

\* Ulid::new().to_string(): a fresh identifier, whichever the clock and the
\* random source give.
Ulids == {"01ARZ3NDEKTSV4RRFFQ69G5FAV", "01BX5ZZKBKACTAV9WEVGEMMVRZ"}

\* for input in inputs: the next envelope decoded from stdin; the thread
\* waits while there is none.
Recv(n) ==
    /\ dpc[n] = "recv"
    /\ inbox[n] # << >>
    /\ input' = [input EXCEPT ![n] = Head(inbox[n])]
    /\ inbox' = [inbox EXCEPT ![n] = Tail(inbox[n])]
    /\ handled' = [handled EXCEPT ![n] = Append(@, Head(inbox[n]))]
    /\ dpc' = [dpc EXCEPT ![n] = "lock_stdout"]
    /\ UNCHANGED <<store, locks, id, reply, gossv, out, arrived, rounds, delivered>>

\* let mut stdout = std::io::stdout().lock(): held until the end of the
\* loop's body.
LockStdout(n) ==
    /\ dpc[n] = "lock_stdout"
    /\ stdoutLock[n] = Free
    /\ stdoutLock' = Acquire(stdoutLock, n, Main)
    /\ dpc' = [dpc EXCEPT ![n] = "step"]
    /\ UNCHANGED <<store, messagesLock, whoamiLock, topologyLock, id, input, reply,
                   gossv, envv, out, handled>>

\* Payload::Init: the reply is built, the whoami lock is taken and the
\* envelope's dest is appended to whoami; the guard lives to the end of the arm.
StepInit(n) ==
    /\ dpc[n] = "step"
    /\ input[n].body.payload.type = "init"
    /\ whoamiLock[n] = Free
    /\ reply' = [reply EXCEPT ![n] = Reply(input[n], id[n], PInitOk)]
    /\ whoamiLock' = Acquire(whoamiLock, n, Main)
    /\ whoami' = [whoami EXCEPT ![n] = StringExtend(@, input[n].dest)]
    /\ dpc' = [dpc EXCEPT ![n] = "write_json"]
    /\ UNCHANGED <<messages, topology, messagesLock, topologyLock, stdoutLock, id, input,
                   gossv, envv, out, handled>>

\* Payload::Echo
StepEcho(n) ==
    /\ dpc[n] = "step"
    /\ input[n].body.payload.type = "echo"
    /\ reply' = [reply EXCEPT ![n] =
                    Reply(input[n], id[n], PEchoOk(input[n].body.payload.echo))]
    /\ dpc' = [dpc EXCEPT ![n] = "write_json"]
    /\ UNCHANGED <<store, locks, id, input, gossv, envv, out, handled>>

\* Payload::Generate
StepGenerate(n) ==
    /\ dpc[n] = "step"
    /\ input[n].body.payload.type = "generate"
    /\ \E unique_id \in Ulids :
          reply' = [reply EXCEPT ![n] = Reply(input[n], id[n], PGenerateOk(unique_id))]
    /\ dpc' = [dpc EXCEPT ![n] = "write_json"]
    /\ UNCHANGED <<store, locks, id, input, gossv, envv, out, handled>>

\* Payload::Broadcast: the messages lock is taken, the value inserted, the
\* reply built; the guard lives to the end of the arm.
StepBroadcast(n) ==
    /\ dpc[n] = "step"
    /\ input[n].body.payload.type = "broadcast"
    /\ messagesLock[n] = Free
    /\ messagesLock' = Acquire(messagesLock, n, Main)
    /\ messages' = [messages EXCEPT ![n] = SetInsert(@, input[n].body.payload.message)]
    /\ reply' = [reply EXCEPT ![n] = Reply(input[n], id[n], PBroadcastOk)]
    /\ dpc' = [dpc EXCEPT ![n] = "write_json"]
    /\ UNCHANGED <<whoami, topology, whoamiLock, topologyLock, stdoutLock, id, input,
                   gossv, envv, out, handled>>

\* Payload::Read: the messages lock is taken and the set collected into the
\* reply; the guard lives to the end of the arm.
StepRead(n) ==
    /\ dpc[n] = "step"
    /\ input[n].body.payload.type = "read"
    /\ messagesLock[n] = Free
    /\ messagesLock' = Acquire(messagesLock, n, Main)
    /\ \E collected \in Collections(messages[n]) :
          reply' = [reply EXCEPT ![n] = Reply(input[n], id[n], PReadOk(collected))]
    /\ dpc' = [dpc EXCEPT ![n] = "write_json"]
    /\ UNCHANGED <<store, whoamiLock, topologyLock, stdoutLock, id, input,
                   gossv, envv, out, handled>>

\* Payload::Topology: the topology lock is taken and the map extended; the
\* guard lives to the end of the arm.
StepTopology(n) ==
    /\ dpc[n] = "step"
    /\ input[n].body.payload.type = "topology"
    /\ topologyLock[n] = Free
    /\ topologyLock' = Acquire(topologyLock, n, Main)
    /\ topology' = [topology EXCEPT ![n] = MapExtend(@, input[n].body.payload.topology)]
    /\ reply' = [reply EXCEPT ![n] = Reply(input[n], id[n], PTopologyOk)]
    /\ dpc' = [dpc EXCEPT ![n] = "write_json"]
    /\ UNCHANGED <<messages, whoami, messagesLock, whoamiLock, stdoutLock, id, input,
                   gossv, envv, out, handled>>

\* Payload::GossipBroadcast: the messages lock is taken, the set extended, the
\* guard dropped; nothing is written, step returns and the stdout lock is
\* dropped at the end of the loop's body.
StepGossipBroadcast(n) ==
    /\ dpc[n] = "step"
    /\ input[n].body.payload.type = "gossip_broadcast"
    /\ messagesLock[n] = Free
    /\ messages' = [messages EXCEPT ![n] = SetExtend(@, input[n].body.payload.message)]
    /\ stdoutLock' = Release(stdoutLock, n, Main)
    /\ input' = [input EXCEPT ![n] = NoMessage]
    /\ dpc' = [dpc EXCEPT ![n] = "recv"]
    /\ UNCHANGED <<whoami, topology, messagesLock, whoamiLock, topologyLock, id, reply,
                   gossv, envv, out, handled>>

\* The kinds the arms "InitOk | GenerateOk | BroadcastOk | ReadOk | TopologyOk"
\* and "_" (EchoOk, Error) match: nothing is done.
IgnoredTypes ==
    {"init_ok", "generate_ok", "broadcast_ok", "read_ok", "topology_ok", "echo_ok", "error"}

\* A mutant of StepIgnore: an ignored envelope consumes an id.
StepIgnoreCounting(n) ==
    /\ dpc[n] = "step"
    /\ input[n].body.payload.type \in IgnoredTypes
    /\ stdoutLock' = Release(stdoutLock, n, Main)
    /\ input' = [input EXCEPT ![n] = NoMessage]
    /\ id' = [id EXCEPT ![n] = @ + 1]
    /\ dpc' = [dpc EXCEPT ![n] = "recv"]
    /\ UNCHANGED <<store, messagesLock, whoamiLock, topologyLock, reply,
                   gossv, envv, out, handled>>

\* The arms that match the ignored kinds: step returns Ok(()) and the stdout
\* lock is dropped at the end of the loop's body.
StepIgnore(n) ==
    /\ dpc[n] = "step"
    /\ input[n].body.payload.type \in IgnoredTypes
    /\ stdoutLock' = Release(stdoutLock, n, Main)
    /\ input' = [input EXCEPT ![n] = NoMessage]
    /\ dpc' = [dpc EXCEPT ![n] = "recv"]
    /\ UNCHANGED <<store, messagesLock, whoamiLock, topologyLock, id, reply,
                   gossv, envv, out, handled>>

\* serde_json::to_writer(&mut *output, &reply)
WriteJson(n) ==
    /\ dpc[n] = "write_json"
    /\ out' = [out EXCEPT ![n] = Append(@, JsonChunk(reply[n]))]
    /\ dpc' = [dpc EXCEPT ![n] = "write_nl"]
    /\ UNCHANGED <<store, locks, id, input, reply, gossv, envv, handled>>

\* output.write_all(b"\n"); self.id += 1; the arm's guard and then the
\* stdout lock go out of scope.
WriteNl(n) ==
    /\ dpc[n] = "write_nl"
    /\ out' = [out EXCEPT ![n] = Append(@, NewlineChunk)]
    /\ id' = [id EXCEPT ![n] = @ + 1]
    /\ messagesLock' = Release(messagesLock, n, Main)
    /\ whoamiLock' = Release(whoamiLock, n, Main)
    /\ topologyLock' = Release(topologyLock, n, Main)
    /\ stdoutLock' = Release(stdoutLock, n, Main)
    /\ input' = [input EXCEPT ![n] = NoMessage]
    /\ reply' = [reply EXCEPT ![n] = NoMessage]
    /\ dpc' = [dpc EXCEPT ![n] = "recv"]
    /\ UNCHANGED <<store, gossv, envv, handled>>

\* ---------------------------------------------------- the gossip thread
\* The top of the loop: the first round, or the end of thread::sleep.
Wake(n) ==
    /\ gpc[n] = "sleep"
    /\ rounds[n] < MaxRounds
    /\ rounds' = [rounds EXCEPT ![n] = @ + 1]
    /\ gpc' = [gpc EXCEPT ![n] = "whoami"]
    /\ UNCHANGED <<store, locks, mainv, moreids, src, msgs, neighbors,
                   inbox, arrived, delivered, out, handled>>

\* let xsrc = whoami.lock().unwrap().to_string(): the guard is a temporary,
\* dropped at the end of the statement.
SnapshotWhoami(n) ==
    /\ gpc[n] = "whoami"
    /\ whoamiLock[n] = Free
    /\ src' = [src EXCEPT ![n] = whoami[n]]
    /\ gpc' = [gpc EXCEPT ![n] = "messages"]
    /\ UNCHANGED <<store, locks, mainv, moreids, msgs, neighbors, envv, out, handled>>

\* let xmsgs = messages.lock().unwrap(); msgs = xmsgs.clone(); the guard is
\* dropped at the end of the inner block.
SnapshotMessages(n) ==
    /\ gpc[n] = "messages"
    /\ messagesLock[n] = Free
    /\ msgs' = [msgs EXCEPT ![n] = messages[n]]
    /\ gpc' = [gpc EXCEPT ![n] = "topology"]
    /\ UNCHANGED <<store, locks, mainv, moreids, src, neighbors, envv, out, handled>>

\* let neighbors = broad_neighbors.lock().unwrap(); the Vec of neighbors
\* borrows from the guard, which lives to the end of the round's block.
LockTopology(n) ==
    /\ gpc[n] = "topology"
    /\ topologyLock[n] = Free
    /\ topologyLock' = Acquire(topologyLock, n, Gossip)
    /\ neighbors' = [neighbors EXCEPT ![n] = RoundNeighbors(topology[n], src[n])]
    /\ gpc' = [gpc EXCEPT ![n] = "send"]
    /\ UNCHANGED <<store, messagesLock, whoamiLock, stdoutLock, mainv, moreids, src, msgs,
                   envv, out, handled>>

\* A mutant of GossipEnvelope: the payload is the Value Set as it is when
\* the envelope is built.
GossipEnvelopeLive(n) ==
    Message(src[n], Head(neighbors[n]), Some(moreids[n]), None,
            PGossipBroadcast(messages[n]))

\* The envelope the loop builds for the next neighbor.
GossipEnvelope(n) ==
    Message(src[n], Head(neighbors[n]), Some(moreids[n]), None, PGossipBroadcast(msgs[n]))

\* A mutant of GossipLockStdout: the thread writes without the stdout lock.
GossipWritesUnlocked(n) ==
    /\ gpc[n] = "send"
    /\ neighbors[n] # << >>
    /\ gpc' = [gpc EXCEPT ![n] = "write_json"]
    /\ UNCHANGED <<store, locks, mainv, moreids, src, msgs, neighbors, envv, out, handled>>

\* for neighbor in neighbors: let mut output = std::io::stdout().lock()
GossipLockStdout(n) ==
    /\ gpc[n] = "send"
    /\ neighbors[n] # << >>
    /\ stdoutLock[n] = Free
    /\ stdoutLock' = Acquire(stdoutLock, n, Gossip)
    /\ gpc' = [gpc EXCEPT ![n] = "write_json"]
    /\ UNCHANGED <<store, messagesLock, whoamiLock, topologyLock, mainv, moreids, src, msgs,
                   neighbors, envv, out, handled>>

\* serde_json::to_writer(&mut output, &reply)
GossipWriteJson(n) ==
    /\ gpc[n] = "write_json"
    /\ out' = [out EXCEPT ![n] = Append(@, JsonChunk(GossipEnvelope(n)))]
    /\ gpc' = [gpc EXCEPT ![n] = "write_nl"]
    /\ UNCHANGED <<store, locks, mainv, moreids, src, msgs, neighbors, envv, handled>>

\* output.write_all(b"\n"); moreids += 1; output is dropped at the end of
\* the loop's body.
GossipWriteNl(n) ==
    /\ gpc[n] = "write_nl"
    /\ out' = [out EXCEPT ![n] = Append(@, NewlineChunk)]
    /\ moreids' = [moreids EXCEPT ![n] = @ + 1]
    /\ stdoutLock' = Release(stdoutLock, n, Gossip)
    /\ neighbors' = [neighbors EXCEPT ![n] = Tail(@)]
    /\ gpc' = [gpc EXCEPT ![n] = "send"]
    /\ UNCHANGED <<store, messagesLock, whoamiLock, topologyLock, mainv, src, msgs,
                   envv, handled>>

\* The for loop is over: the round's block ends, the topology guard is
\* dropped and the thread sleeps.
RoundEnd(n) ==
    /\ gpc[n] = "send"
    /\ neighbors[n] = << >>
    /\ topologyLock' = Release(topologyLock, n, Gossip)
    /\ gpc' = [gpc EXCEPT ![n] = "sleep"]
    /\ UNCHANGED <<store, messagesLock, whoamiLock, stdoutLock, mainv, moreids, src, msgs,
                   neighbors, envv, out, handled>>

\* ------------------------------------------------------ the environment
\* The topologies clients send.
Topologies ==
    { N1 :> <<N2>>,
      N1 :> <<N2, N1, N2>>,
      N2 :> <<N3>>,
      (N1 :> <<N3>>) @@ (N2 :> <<N1>>) }

\* The msg_id of the k-th envelope a node is fed: clients and peers number
\* their envelopes.
MsgIds(k) == {Some(k)}

\* The envelopes one node may be fed as its k-th input: every kind of
\* Payload, from a client or from a peer.
SoloInputs(k) ==
    {Message(Client, N1, mid, None, p) :
        mid \in MsgIds(k),
        p \in {PInit(nid, <<N1, N2>>) : nid \in {N1, N2}}
              \cup {PEcho("hi"), PGenerate, PRead}
              \cup {PBroadcast(v) : v \in Values}
              \cup {PTopology(t) : t \in Topologies}}
    \cup {Message(N2, N1, mid, None, PGossipBroadcast(set)) :
        mid \in MsgIds(k), set \in SUBSET Values}
    \cup {Message(N2, N1, None, Some(k), p) :
        p \in {PInitOk, PEchoOk("hi"), PGenerateOk("01ARZ3NDEKTSV4RRFFQ69G5FAV"),
               PBroadcastOk, PReadOk(<<1>>), PTopologyOk, PError(12, "crash")}}

\* An envelope arrives on the node's stdin, once the one before it was read.
Arrive(n, m) ==
    /\ arrived[n] < MaxIn
    /\ inbox[n] = << >>
    /\ inbox' = [inbox EXCEPT ![n] = Append(@, m)]
    /\ arrived' = [arrived EXCEPT ![n] = @ + 1]
    /\ UNCHANGED <<store, locks, mainv, gossv, rounds, delivered, out, handled>>

\* ------------------------------------------------- one node on its own
MainStep(n) ==
    \/ Recv(n)
    \/ LockStdout(n)
    \/ StepInit(n)
    \/ StepEcho(n)
    \/ StepGenerate(n)
    \/ StepBroadcast(n)
    \/ StepRead(n)
    \/ StepTopology(n)
    \/ StepGossipBroadcast(n)
    \/ StepIgnore(n)
    \/ WriteJson(n)
    \/ WriteNl(n)

GossipStep(n) ==
    \/ Wake(n)
    \/ SnapshotWhoami(n)
    \/ SnapshotMessages(n)
    \/ LockTopology(n)
    \/ GossipLockStdout(n)
    \/ GossipWriteJson(n)
    \/ GossipWriteNl(n)
    \/ RoundEnd(n)

SoloArrive == \E m \in SoloInputs(arrived[N1] + 1) : Arrive(N1, m)

Next ==
    \/ SoloArrive
    \/ MainStep(N1)
    \/ GossipStep(N1)

Spec == Init /\ [][Next]_vars

\* ------------------------------------------------------------ a cluster
\* Every process of Procs runs the program; the network reads each process's
\* stdout line by line and writes an envelope addressed to a process on that
\* process's stdin, losing none.

\* The topology of the cluster: a connected graph, sent whole to every node.
ClusterTopologies ==
    { (N1 :> <<N2>>) @@ (N2 :> <<N1>>) }

\* The Init and the Topology every node of the cluster is fed first.
SetupInit(n) == Message(Client, n, Some(1), None, PInit(n, <<N1, N2>>))
SetupTopology(n, t) == Message(Client, n, Some(2), None, PTopology(t))

\* The cluster once every node has handled its Init and then its Topology,
\* both acknowledged, the acknowledgements gone to the client, and before
\* any gossip thread has started a round.
ClusterInit ==
    \E t \in ClusterTopologies :
        /\ messages = [n \in Procs |-> {}]
        /\ whoami = [n \in Procs |-> StringExtend(EmptyString, SetupInit(n).dest)]
        /\ topology = [n \in Procs |-> MapExtend(EmptyMap, t)]
        /\ messagesLock = [n \in Procs |-> Free]
        /\ whoamiLock = [n \in Procs |-> Free]
        /\ topologyLock = [n \in Procs |-> Free]
        /\ stdoutLock = [n \in Procs |-> Free]
        /\ id = [n \in Procs |-> FirstId + 2]
        /\ dpc = [n \in Procs |-> "recv"]
        /\ input = [n \in Procs |-> NoMessage]
        /\ reply = [n \in Procs |-> NoMessage]
        /\ moreids = [n \in Procs |-> FirstMoreIds]
        /\ gpc = [n \in Procs |-> "sleep"]
        /\ src = [n \in Procs |-> EmptyString]
        /\ msgs = [n \in Procs |-> {}]
        /\ neighbors = [n \in Procs |-> << >>]
        /\ inbox = [n \in Procs |-> << >>]
        /\ out = [n \in Procs |->
                    << JsonChunk(Reply(SetupInit(n), FirstId, PInitOk)), NewlineChunk,
                       JsonChunk(Reply(SetupTopology(n, t), FirstId + 1, PTopologyOk)),
                       NewlineChunk >>]
        /\ arrived = [n \in Procs |-> 0]
        /\ rounds = [n \in Procs |-> 0]
        /\ delivered = [n \in Procs |-> 4]
        /\ handled = [n \in Procs |-> << SetupInit(n), SetupTopology(n, t) >>]

\* The values the cluster's clients broadcast.
ClusterValues == {1}

\* The values clients have broadcast so far, at any node.
ClientBroadcasts ==
    {m.body.payload.message :
        m \in {x \in UNION {Range(handled[n]) \cup Range(inbox[n]) : n \in Procs} :
                  x.body.payload.type = "broadcast"}}

\* A client broadcasts a value at node n; clients broadcast a value once.
ClientBroadcast(n) ==
    /\ \E v \in ClusterValues \ ClientBroadcasts :
          inbox' = [inbox EXCEPT ![n] =
                      Append(@, Message(Client, n, Some(arrived[n] + 3), None, PBroadcast(v)))]
    /\ arrived' = [arrived EXCEPT ![n] = @ + 1]
    /\ UNCHANGED <<store, locks, mainv, gossv, rounds, delivered, out, handled>>

\* The network takes the next line of n's stdout (an envelope and its
\* newline) and hands the envelope to the process it is addressed to;
\* an envelope for a client leaves the cluster.
Deliver(n) ==
    /\ delivered[n] + 2 <= Len(out[n])
    /\ out[n][delivered[n] + 1].chunk = "json"
    /\ out[n][delivered[n] + 2].chunk = "nl"
    /\ LET m == out[n][delivered[n] + 1].msg
       IN  inbox' = IF m.dest \in Procs
                    THEN [inbox EXCEPT ![m.dest] = Append(@, m)]
                    ELSE inbox
    /\ delivered' = [delivered EXCEPT ![n] = @ + 2]
    /\ UNCHANGED <<store, locks, mainv, gossv, arrived, rounds, out, handled>>

\* The arms of step the cluster's traffic reaches.
ClusterMainStep(n) ==
    \/ Recv(n)
    \/ LockStdout(n)
    \/ StepBroadcast(n)
    \/ StepGossipBroadcast(n)
    \/ WriteJson(n)
    \/ WriteNl(n)

ClusterNext ==
    \E n \in Procs :
        \/ ClientBroadcast(n)
        \/ ClusterMainStep(n)
        \/ GossipStep(n)
        \/ Deliver(n)

\* Scheduling: while a thread can run, a sleep can end or the network has a
\* line to deliver, one of them does. Every gossip thread starts at most
\* MaxRounds rounds, so no thread can run forever at the cost of the others.
ClusterFairness == WF_vars(ClusterNext)

ClusterSpec == ClusterInit /\ [][ClusterNext]_vars /\ ClusterFairness

\* ------------------------------------------------- writes that fail
\* serde_json::to_writer or write_all returns Err in step: "?" returns from
\* step and then from main, the guards are dropped on the way and the
\* process exits, its gossip thread with it. Nothing of the failed write
\* reaches stdout.
MainWriteFails(n) ==
    /\ dpc[n] \in {"write_json", "write_nl"}
    /\ messagesLock' = Release(messagesLock, n, Main)
    /\ whoamiLock' = Release(whoamiLock, n, Main)
    /\ topologyLock' = Release(topologyLock, n, Main)
    /\ stdoutLock' = Release(stdoutLock, n, Main)
    /\ dpc' = [dpc EXCEPT ![n] = "exited"]
    /\ UNCHANGED <<store, id, input, reply, gossv, envv, out, handled>>

\* serde_json::to_writer or write_all returns Err in the gossip thread: "?"
\* returns from the closure, the stdout lock and the topology guard are
\* dropped and the thread ends. The JoinHandle was dropped at spawn: nobody
\* reads the closure's result and the main thread goes on.
GossipWriteFails(n) ==
    /\ dpc[n] # "exited"
    /\ gpc[n] \in {"write_json", "write_nl"}
    /\ stdoutLock' = Release(stdoutLock, n, Gossip)
    /\ topologyLock' = Release(topologyLock, n, Gossip)
    /\ gpc' = [gpc EXCEPT ![n] = "ended"]
    /\ UNCHANGED <<store, messagesLock, whoamiLock, mainv, moreids, src, msgs, neighbors,
                   envv, out, handled>>

\* The gossip thread runs while the process does.
RunningGossipStep(n) ==
    /\ dpc[n] # "exited"
    /\ GossipStep(n)

\* One node whose writes to stdout may fail.
FailNext ==
    \/ SoloArrive
    \/ MainStep(N1)
    \/ MainWriteFails(N1)
    \/ RunningGossipStep(N1)
    \/ GossipWriteFails(N1)

FailSpec == Init /\ [][FailNext]_vars

\* ---------------------------------------------- claims about one node
\* The node the single-node specification runs.
Node == N1

\* The envelopes a node has written, in the order written.
Envelopes(n) ==
    LET js == SelectSeq(out[n], LAMBDA c : c.chunk = "json")
    IN  [i \in 1..Len(js) |-> js[i].msg]

IsGossip(m) == m.body.payload.type = "gossip_broadcast"

\* The owner of the lock the main thread is waiting to take, Free if it is
\* not at a lock.
MainAwaits(n) ==
    IF dpc[n] = "lock_stdout" THEN stdoutLock[n]
    ELSE IF dpc[n] # "step" THEN Free
    ELSE IF input[n].body.payload.type = "init" THEN whoamiLock[n]
    ELSE IF input[n].body.payload.type \in {"broadcast", "read", "gossip_broadcast"}
         THEN messagesLock[n]
    ELSE IF input[n].body.payload.type = "topology" THEN topologyLock[n]
    ELSE Free

\* The owner of the lock the gossip thread is waiting to take, Free if it is
\* not at a lock.
GossipAwaits(n) ==
    IF gpc[n] = "whoami" THEN whoamiLock[n]
    ELSE IF gpc[n] = "messages" THEN messagesLock[n]
    ELSE IF gpc[n] = "topology" THEN topologyLock[n]
    ELSE IF gpc[n] = "send" /\ neighbors[n] # << >> THEN stdoutLock[n]
    ELSE Free

\* C1: the dispatcher and the gossip thread never wait for each other: it
\* is never the case that the main thread waits for a lock the gossip thread
\* holds while the gossip thread waits for a lock the main thread holds.
NeverBlockEachOther ==
    ~(MainAwaits(Node) = Gossip /\ GossipAwaits(Node) = Main)

\* C2: the msg_ids of the envelopes the node has written, replies and gossip
\* together in the order written, are 1, 2, ..., K.
MsgIdsCountFromOne ==
    \A i \in DOMAIN Envelopes(Node) : Envelopes(Node)[i].body.msg_id = Some(i)

\* The inbound envelopes step answers with a reply.
IsRequest(m) ==
    m.body.payload.type \in {"init", "echo", "generate", "broadcast", "read", "topology"}

\* The requests the main thread has taken from stdin, in arrival order, and
\* the replies it has written.
Requests(n) == SelectSeq(handled[n], IsRequest)
Replies(n) == SelectSeq(Envelopes(n), LAMBDA m : ~IsGossip(m))

\* C3: requests are answered one reply each in arrival order, and a request
\* being handled is never stuck: while the main thread is between taking an
\* envelope and finishing with it, a thread of the process can take a step.
RequestsAreAnswered ==
    /\ Len(Replies(Node)) <= Len(Requests(Node))
    /\ \A i \in DOMAIN Replies(Node) :
          Replies(Node)[i].body.in_reply_to = Requests(Node)[i].body.msg_id
    /\ dpc[Node] # "recv" => ENABLED (MainStep(Node) \/ GossipStep(Node))

\* The acknowledgement of each kind of request.
AckOf(type) ==
    CASE type = "init" -> "init_ok"
      [] type = "echo" -> "echo_ok"
      [] type = "generate" -> "generate_ok"
      [] type = "broadcast" -> "broadcast_ok"
      [] type = "read" -> "read_ok"
      [] type = "topology" -> "topology_ok"

\* C5: the i-th reply answers the i-th request: in_reply_to is the request's
\* msg_id, src and dest are the request's dest and src, and the kind is the
\* request's acknowledgement; a gossip envelope carries no in_reply_to.
RepliesMatchRequests ==
    /\ Len(Replies(Node)) <= Len(Requests(Node))
    /\ \A i \in DOMAIN Replies(Node) :
          LET r == Replies(Node)[i]
              q == Requests(Node)[i]
          IN  /\ r.body.in_reply_to = q.body.msg_id
              /\ r.src = q.dest
              /\ r.dest = q.src
              /\ r.body.payload.type = AckOf(q.body.payload.type)
    /\ \A i \in DOMAIN Envelopes(Node) :
          IsGossip(Envelopes(Node)[i]) => Envelopes(Node)[i].body.in_reply_to = None

\* C5 (witness): an Init and a Topology have been acknowledged and a gossip
\* envelope has been written.
RepliedAndGossiped ==
    /\ \E i \in DOMAIN Replies(Node) : Replies(Node)[i].body.payload.type = "init_ok"
    /\ \E i \in DOMAIN Replies(Node) : Replies(Node)[i].body.payload.type = "topology_ok"
    /\ \E i \in DOMAIN Envelopes(Node) : IsGossip(Envelopes(Node)[i])

\* The node's own address is in the adjacency list stored under its own address.
OwnInOwnList(n) ==
    /\ whoami[n] \in DOMAIN topology[n]
    /\ whoami[n] \in Range(topology[n][whoami[n]])

\* C6: when the node's own address is in its own adjacency list, the gossip
\* envelope just written (the gossip thread still holds the stdout lock) is
\* not addressed to the node's own address.
NeverGossipsToItself ==
    (gpc[Node] = "write_nl" /\ OwnInOwnList(Node))
        => out[Node][Len(out[Node])].msg.dest # whoami[Node]

\* The neighbors of the round's identity: the adjacency list stored under it,
\* without the identity itself.
OwnNeighbors(n) ==
    IF src[n] \in DOMAIN topology[n]
    THEN Range(topology[n][src[n]]) \ {src[n]}
    ELSE {}

\* C7: the neighbors a round of a node that knows its address is still to
\* send to (the gossip thread holds the topology lock) are addresses of the
\* adjacency list stored under the node's own address, each once.
GossipsOnlyToOwnNeighbors ==
    (gpc[Node] \in {"send", "write_json", "write_nl"} /\ src[Node] # EmptyString) =>
        /\ Range(neighbors[Node]) \subseteq OwnNeighbors(Node)
        /\ \A i, j \in DOMAIN neighbors[Node] :
              neighbors[Node][i] = neighbors[Node][j] => i = j

\* C8: once the Identity is assigned, no step changes it.
IdentityNeverChanges ==
    [][whoami[Node] # EmptyString => whoami'[Node] = whoami[Node]]_vars

\* C9: handling an Init while the Identity is empty sets the Identity to the
\* node_id of the Init.
InitRecordsNodeId ==
    [][(/\ dpc[Node] = "step"
        /\ input[Node].body.payload.type = "init"
        /\ whoami[Node] = EmptyString
        /\ dpc'[Node] = "write_json")
       => whoami'[Node] = input[Node].body.payload.node_id]_vars

\* C10: no step removes a value from the Value Set.
ValueSetOnlyGrows ==
    [][messages[Node] \subseteq messages'[Node]]_vars

\* C10 (witness): the Value Set holds a value a Broadcast inserted and
\* another a GossipBroadcast inserted.
GrownByBroadcastAndGossip ==
    \E i, j \in DOMAIN handled[Node] :
        /\ dpc[Node] = "recv"
        /\ inbox[Node] = << >>
        /\ handled[Node][i].body.payload.type = "broadcast"
        /\ handled[Node][j].body.payload.type = "gossip_broadcast"
        /\ handled[Node][j].body.payload.message # {}
        /\ handled[Node][i].body.payload.message \notin handled[Node][j].body.payload.message
        /\ messages[Node] = Values

\* ------------------------------------------- claims about the cluster

\* The gossip thread of n will still take a snapshot of the Value Set: it
\* has a round left to start, or is in a round and has not taken it yet.
WillSnapshot(n) == rounds[n] < MaxRounds \/ gpc[n] \in {"whoami", "messages"}

\* C4: in a cluster whose nodes have all handled Init and one Topology of a
\* connected graph, with lossless delivery and fair scheduling, a value in
\* the Value Set of a node whose gossip thread still takes a snapshot is
\* eventually in the Value Set of every node, and stays there.
EventuallyEverywhere ==
    \A v \in ClusterValues :
        (\E n \in Procs : v \in messages[n] /\ WillSnapshot(n))
            ~> [](\A m \in Procs : v \in messages[m])

\* C4 (witness): a value broadcast at one node has reached every node by
\* gossip.
GossipedEverywhere ==
    \E v \in ClusterValues :
        /\ \A m \in Procs : v \in messages[m]
        /\ \E n \in Procs : \E i \in DOMAIN handled[n] :
              /\ handled[n][i].body.payload.type = "gossip_broadcast"
              /\ v \in handled[n][i].body.payload.message
        /\ \E n \in Procs : \E i \in DOMAIN handled[n] :
              /\ handled[n][i].body.payload.type = "broadcast"
              /\ handled[n][i].body.payload.message = v

\* ------------------------------------------- claims about the handlers
\* The main thread is in step on an envelope of the given kind, and the step
\* is the one that leaves step.
Handles(type) ==
    /\ dpc[Node] = "step"
    /\ input[Node].body.payload.type = type
    /\ dpc'[Node] # "step"

\* C11: a Broadcast of a value already in the Value Set leaves the Value Set
\* as it is and still builds the broadcast_ok reply to the request; a
\* GossipBroadcast of a subset of the Value Set leaves the Value Set as it is.
DuplicateInsertChangesNothing ==
    [][/\ (Handles("broadcast") /\ input[Node].body.payload.message \in messages[Node])
            => /\ messages'[Node] = messages[Node]
               /\ reply'[Node].body.payload.type = "broadcast_ok"
               /\ reply'[Node].body.in_reply_to = input[Node].body.msg_id
       /\ (Handles("gossip_broadcast")
              /\ input[Node].body.payload.message \subseteq messages[Node])
            => messages'[Node] = messages[Node]]_vars

\* C11 (witness): the same value was broadcast twice, both requests were
\* acknowledged with broadcast_ok and the Value Set holds the value once.
BroadcastTwiceAcknowledged ==
    /\ dpc[Node] = "recv"
    /\ Len(handled[Node]) = 2
    /\ handled[Node][1].body.payload.type = "broadcast"
    /\ handled[Node][2].body.payload = handled[Node][1].body.payload
    /\ Len(Replies(Node)) = 2
    /\ \A i \in 1..2 : Replies(Node)[i].body.payload.type = "broadcast_ok"
    /\ messages[Node] = {handled[Node][1].body.payload.message}

\* The values the envelopes of a sequence insert: a Broadcast its value, a
\* GossipBroadcast its set.
InsertedBy(envelopes) ==
    UNION {IF m.body.payload.type = "broadcast" THEN {m.body.payload.message}
           ELSE IF m.body.payload.type = "gossip_broadcast" THEN m.body.payload.message
           ELSE {} : m \in Range(envelopes)}

\* The position in handled of the i-th request.
RequestIndex(n, i) ==
    SelectSeq([k \in 1..Len(handled[n]) |-> k], LAMBDA k : IsRequest(handled[n][k]))[i]

\* C12: every read_ok written lists, each once, exactly the values the
\* Broadcast and GossipBroadcast envelopes handled before its Read inserted;
\* and the step that handles a Read leaves the Value Set, the Topology and
\* the Identity as they are and puts the Value Set, each value once, in the
\* reply.
ReadReturnsValueSet ==
    /\ [](\A i \in DOMAIN Replies(Node) :
            LET r == Replies(Node)[i].body.payload
            IN  r.type = "read_ok" =>
                  /\ Range(r.messages) =
                        InsertedBy(SubSeq(handled[Node], 1, RequestIndex(Node, i) - 1))
                  /\ Len(r.messages) = Cardinality(Range(r.messages)))
    /\ [][Handles("read") =>
            /\ reply'[Node].body.payload.type = "read_ok"
            /\ Range(reply'[Node].body.payload.messages) = messages[Node]
            /\ Len(reply'[Node].body.payload.messages) = Cardinality(messages[Node])
            /\ store' = store]_vars

\* C12 (witness): a read_ok listing two values has been written, after a
\* GossipBroadcast brought them.
ReadTwoValues ==
    /\ dpc[Node] = "recv"
    /\ \E i \in DOMAIN Replies(Node) :
          /\ Replies(Node)[i].body.payload.type = "read_ok"
          /\ Len(Replies(Node)[i].body.payload.messages) = 2
          /\ handled[Node][RequestIndex(Node, i)].body.payload.type = "read"

\* C13: the step that handles Topology(T) leaves every key of T mapped to
\* T's adjacency list and every other stored key mapped to the list it had,
\* and adds no other key; and no step removes a key from the store.
TopologyMerges ==
    [][/\ Handles("topology") =>
            LET T == input[Node].body.payload.topology
            IN  /\ DOMAIN topology'[Node] = DOMAIN topology[Node] \cup DOMAIN T
                /\ \A k \in DOMAIN T : topology'[Node][k] = T[k]
                /\ \A k \in DOMAIN topology[Node] \ DOMAIN T :
                      topology'[Node][k] = topology[Node][k]
       /\ DOMAIN topology[Node] \subseteq DOMAIN topology'[Node]]_vars

\* C13 (witness): two Topology envelopes were handled; the second replaced
\* the list of a key of the first and left the first's other key alone.
TopologyMergedTwice ==
    /\ dpc[Node] = "recv"
    /\ Len(handled[Node]) = 2
    /\ handled[Node][1].body.payload = PTopology((N1 :> <<N3>>) @@ (N2 :> <<N1>>))
    /\ handled[Node][2].body.payload = PTopology(N1 :> <<N2>>)
    /\ topology[Node] = (N1 :> <<N2>>) @@ (N2 :> <<N1>>)

\* C14: the step that handles GossipBroadcast(S) makes the Value Set its
\* union with S, writes nothing and prepares no reply (the main thread goes
\* straight back to stdin), and leaves the main thread's id, the Topology and
\* the Identity as they are.
GossipBroadcastOnlyInserts ==
    [][Handles("gossip_broadcast") =>
          /\ messages'[Node] = messages[Node] \cup input[Node].body.payload.message
          /\ out'[Node] = out[Node]
          /\ reply'[Node] = NoMessage
          /\ dpc'[Node] = "recv"
          /\ id'[Node] = id[Node]
          /\ topology'[Node] = topology[Node]
          /\ whoami'[Node] = whoami[Node]]_vars

\* C14 (witness): two GossipBroadcast envelopes with different values were
\* handled: the Value Set holds both values, nothing was written and the id
\* is still the first.
GossipedTwiceSilently ==
    /\ dpc[Node] = "recv"
    /\ Len(handled[Node]) = 2
    /\ \A i \in 1..2 : handled[Node][i].body.payload.type = "gossip_broadcast"
    /\ handled[Node][1].body.payload.message = {1}
    /\ handled[Node][2].body.payload.message = {2}
    /\ messages[Node] = {1, 2}
    /\ Replies(Node) = << >>
    /\ id[Node] = FirstId

\* The kinds that are only ever replies.
ReplyOnlyTypes ==
    {"init_ok", "echo_ok", "generate_ok", "broadcast_ok", "read_ok", "topology_ok", "error"}

\* C15: the main thread in step on a reply-only kind can take its step (the
\* envelope is not fatal), and that step writes nothing, prepares no reply,
\* leaves the id, the Value Set, the Topology and the Identity as they are,
\* drops the stdout lock and takes the main thread back to stdin for the
\* next envelope.
ReplyOnlyKindsAreIgnored ==
    /\ []((dpc[Node] = "step" /\ input[Node].body.payload.type \in ReplyOnlyTypes)
            => ENABLED MainStep(Node))
    /\ [][(\E type \in ReplyOnlyTypes : Handles(type)) =>
            /\ out'[Node] = out[Node]
            /\ reply'[Node] = NoMessage
            /\ id'[Node] = id[Node]
            /\ store' = store
            /\ stdoutLock'[Node] = Free
            /\ dpc'[Node] = "recv"]_vars

\* C15 (witness): an Error envelope was ignored and the Echo that came after
\* it was answered, with the first id.
EchoAnsweredAfterError ==
    /\ dpc[Node] = "recv"
    /\ Len(handled[Node]) = 2
    /\ handled[Node][1].body.payload.type = "error"
    /\ handled[Node][2].body.payload.type = "echo"
    /\ Len(Replies(Node)) = 1
    /\ Replies(Node)[1].body.payload.type = "echo_ok"
    /\ Replies(Node)[1].body.msg_id = Some(FirstId)

\* C16: once a write to stdout has failed, in the main thread (the process
\* has exited) or in the gossip thread (the thread has ended), no further
\* envelope is taken from stdin, the stores stay as they are and nothing
\* more is written.
WriteFailureIsFatal ==
    [][(dpc[Node] = "exited" \/ gpc[Node] = "ended") =>
          /\ handled'[Node] = handled[Node]
          /\ store' = store
          /\ out'[Node] = out[Node]]_vars

\* The locks of the shared fields a thread of the node holds.
FieldLocksHeld(n, who) ==
    {f \in {"messages", "whoami", "topology"} :
        CASE f = "messages" -> messagesLock[n] = who
          [] f = "whoami" -> whoamiLock[n] = who
          [] f = "topology" -> topologyLock[n] = who}

\* C17: a thread holds at most one field's lock at a time, and holds none
\* while it is writing an envelope to stdout nor, for the gossip thread,
\* while it waits for the stdout lock.
FieldLocksCoverOneAccess ==
    /\ \A who \in {Main, Gossip} : Cardinality(FieldLocksHeld(Node, who)) <= 1
    /\ dpc[Node] \in {"write_json", "write_nl"} => FieldLocksHeld(Node, Main) = {}
    /\ (gpc[Node] \in {"write_json", "write_nl"}
          \/ (gpc[Node] = "send" /\ neighbors[Node] # << >>))
         => FieldLocksHeld(Node, Gossip) = {}

\* ---------------------------------------- claims about the gossip round
\* The gossip envelopes the node has written.
Gossips(n) == SelectSeq(Envelopes(n), IsGossip)

\* C18: the round's snapshots are the Identity and the whole Value Set as
\* they are when taken, and nothing changes them until the next round takes
\* its own; every gossip envelope is written with the round's Identity
\* snapshot as src, the round's Value Set snapshot as payload and the
\* thread's counter as msg_id; the snapshot is within the Value Set at all
\* times; and the counter is its first value plus the number of gossip
\* envelopes whose line is complete, so it moves by one per envelope and not
\* at all in a round without neighbors.
RoundSendsItsSnapshot ==
    /\ [](/\ msgs[Node] \subseteq messages[Node]
          /\ moreids[Node] = FirstMoreIds + Len(Gossips(Node))
                                - (IF gpc[Node] = "write_nl" THEN 1 ELSE 0))
    /\ [][/\ src'[Node] # src[Node] => (gpc[Node] = "whoami" /\ gpc'[Node] = "messages")
          /\ (gpc[Node] = "whoami" /\ gpc'[Node] = "messages") => src'[Node] = whoami[Node]
          /\ msgs'[Node] # msgs[Node] => (gpc[Node] = "messages" /\ gpc'[Node] = "topology")
          /\ (gpc[Node] = "messages" /\ gpc'[Node] = "topology")
                => msgs'[Node] = messages[Node]
          /\ (gpc[Node] = "write_json" /\ gpc'[Node] = "write_nl") =>
                /\ Len(out'[Node]) = Len(out[Node]) + 1
                /\ LET m == out'[Node][Len(out'[Node])].msg
                   IN  /\ m.src = src[Node]
                       /\ m.dest = Head(neighbors[Node])
                       /\ m.body.payload = PGossipBroadcast(msgs[Node])
                       /\ m.body.msg_id = Some(moreids[Node])]_vars

\* C18 (witness): a round has written two envelopes, to different neighbors,
\* with the same payload of one value or more and consecutive msg_ids, and
\* the counter has moved by two.
RoundSentTwo ==
    /\ gpc[Node] = "sleep"
    /\ Len(Gossips(Node)) = 2
    /\ Gossips(Node)[1].dest # Gossips(Node)[2].dest
    /\ Gossips(Node)[1].body.payload = Gossips(Node)[2].body.payload
    /\ Gossips(Node)[1].body.payload.message # {}
    /\ Gossips(Node)[1].src = Gossips(Node)[2].src
    /\ Gossips(Node)[1].body.msg_id = Some(FirstMoreIds)
    /\ Gossips(Node)[2].body.msg_id = Some(FirstMoreIds + 1)
    /\ moreids[Node] = FirstMoreIds + 2

\* The addresses in the adjacency lists of a topology.
Listed(topo) == UNION {Range(topo[k]) : k \in DOMAIN topo}

\* The addresses the j-th handled envelope, a Topology, lists and no Topology
\* handled before it does.
Introduced(n, j) ==
    Listed(handled[n][j].body.payload.topology)
        \ UNION {Listed(handled[n][k].body.payload.topology) :
                    k \in {x \in 1..(j - 1) : handled[n][x].body.payload.type = "topology"}}

\* The reply to the i-th handled envelope has been written, with the given kind.
Acknowledged(n, i, type) ==
    \E k \in DOMAIN Replies(n) :
        /\ Replies(n)[k].body.in_reply_to = handled[n][i].body.msg_id
        /\ Replies(n)[k].body.payload.type = type

\* The gossip thread has just written an envelope to a neighbor that the
\* j-th handled envelope, a Topology, introduced, in a round whose snapshot
\* does not hold the value of the i-th handled envelope, a Broadcast handled
\* before that Topology.
TornRound(n, i, j) ==
    /\ gpc[n] = "write_nl"
    /\ i < j
    /\ handled[n][i].body.payload.type = "broadcast"
    /\ handled[n][j].body.payload.type = "topology"
    /\ handled[n][i].body.payload.message \notin msgs[n]
    /\ out[n][Len(out[n])].msg.dest \in Introduced(n, j)

\* C19: a round is not atomic across the fields. Whenever a round sends to a
\* neighbor introduced by a Topology handled after a Broadcast(v) that its
\* Value Set snapshot missed, both requests were acknowledged before the
\* envelope was written, v is in the Value Set, and the envelope's payload
\* does not hold v.
RoundIsNotAtomic ==
    \A i, j \in DOMAIN handled[Node] :
        TornRound(Node, i, j) =>
            /\ Acknowledged(Node, i, "broadcast_ok")
            /\ Acknowledged(Node, j, "topology_ok")
            /\ handled[Node][i].body.payload.message \in messages[Node]
            /\ handled[Node][i].body.payload.message
                  \notin out[Node][Len(out[Node])].msg.body.payload.message

\* C19 (witness): such a round: Broadcast(1) and then a Topology were handled
\* and acknowledged after the round's Value Set snapshot and before its
\* Topology read, and the round has written an envelope without 1 to a
\* neighbor that Topology introduced.
RoundWasTorn ==
    /\ Len(handled[Node]) = 2
    /\ TornRound(Node, 1, 2)
    /\ handled[Node][1].body.payload.message = 1
    /\ messages[Node] = {1}
    /\ msgs[Node] = {}
    /\ Len(Replies(Node)) = 2
    /\ IsGossip(out[Node][Len(out[Node])].msg)
    /\ out[Node][Len(out[Node])].msg.body.payload.message = {}

\* ----------------------------------------------- claims about the output
\* C20: stdout is a sequence of lines, each the JSON of one envelope and then
\* its newline; a line is incomplete only while one thread is between its
\* JSON and its newline, it is that thread's envelope, and the other thread
\* is not writing.
LinesAreWhole ==
    /\ \A i \in DOMAIN out[Node] :
          out[Node][i].chunk = IF i % 2 = 1 THEN "json" ELSE "nl"
    /\ ~(dpc[Node] \in {"write_json", "write_nl"} /\ gpc[Node] \in {"write_json", "write_nl"})
    /\ Len(out[Node]) % 2 = 1 <=> (dpc[Node] = "write_nl" \/ gpc[Node] = "write_nl")
    /\ dpc[Node] = "write_nl" => out[Node][Len(out[Node])].msg = reply[Node]
    /\ gpc[Node] = "write_nl" => IsGossip(out[Node][Len(out[Node])].msg)

\* C20 (witness): the main thread is between the JSON and the newline of a
\* reply while the gossip thread, one envelope of its round already written,
\* waits for stdout to write the next.
GossipWaitsForReplyLine ==
    /\ dpc[Node] = "write_nl"
    /\ gpc[Node] = "send"
    /\ neighbors[Node] # << >>
    /\ Len(Gossips(Node)) = 1
    /\ Len(out[Node]) % 2 = 1

====
